---- MODULE Spec2Model ----
(***************************************************************************)
(* Authentication / session core of the FastAPI backend:                   *)
(*   app/core/config.py    Settings                                        *)
(*   app/core/security.py  create_access_token, verify_password,           *)
(*                         get_password_hash                               *)
(*   app/crud.py           create_user, update_user, get_user_by_email,    *)
(*                         authenticate, get_or_create_default_user        *)
(*   app/core/db.py        engine, set_sqlite_pragma, get_session, init_db *)
(*   app/api/deps.py       get_db, get_current_user,                       *)
(*                         get_current_active_superuser                    *)
(*   app/prestart.py       run_migrations, run_initial_data, main          *)
(*   app/main.py           lifespan                                        *)
(*                                                                         *)
(* Time is counted in ticks of 1/TicksPerSec second.  A user id (uuid4) is *)
(* the row's position in the table: ids are never reused and the core      *)
(* never deletes a row.                                                    *)
(***************************************************************************)
EXTENDS Integers, Sequences, FiniteSets, TLC

\* ------------------------------------------------------------------ bounds
MaxUsers == 2
MaxTime == 3
MaxExp == 1
MaxTTL == 2
NumReqs == 2
MaxTokens == 1
MaxFieldsSet == 1
BusySteps == 2

TicksPerSec == 2

\* ------------------------------------------------------------- settings
DEFAULT_USER_EMAIL == "local@desktop.app"
ALGORITHM == "HS256"
Keys == {"k1", "k2"}
Emails == {DEFAULT_USER_EMAIL, "a@x.com"}
Passwords == {"pw1", "pw2"}
DEFAULT_USER_PASSWORD == "not-used-for-local-user"
Reqs == 1..NumReqs

\* ---------------------------------------------------------------- state
VARIABLES
    authRequired,   \* settings.AUTH_REQUIRED of the running process
    secret,         \* settings.SECRET_KEY of the running process
    db,             \* the user table: db[id] is the row of user id
    now,            \* the clock, in ticks
    issued,         \* tokens create_access_token has handed out
    pc,             \* pc[r]: where request r is inside get_current_user
    req,            \* req[r]: the token request r came with
    sess,           \* sess[r]: the Session get_db gave request r
    conns,          \* the DBAPI connections of engine's pool
    boot,           \* how far the process is in its startup (lifespan)
    obs             \* what the step just taken reported (its Outcome)

vars ==
    <<authRequired, secret, db, now, issued, pc, req, sess, conns, boot, obs>>

\* ------------------------------------------------------- password hashes
\* The hashers of password_hash, the primary one first.
Hashers == <<"argon2", "bcrypt">>

\* A hash string embeds its algorithm; the salt is left out, the password
\* it was computed from decides verification.

\* get_password_hash that stores what it is given.
get_password_hash_plain(password) == [alg |-> "plain", pw |-> password]

get_password_hash(password) == [alg |-> "argon2", pw |-> password]

DUMMY_HASH == [alg |-> "argon2", pw |-> "random"]

\* pwdlib's verify_and_update: <<valid, upgraded hash or "none">>.  A hash
\* of the bcrypt fallback that verifies is re-hashed with the primary hasher.
NoHash == [alg |-> "none", pw |-> "none"]

\* verify_and_update that accepts every password.
verify_password_any(plain_password, hashed_password) ==
    [verified |-> TRUE, updated |-> NoHash]

verify_password(plain_password, hashed_password) ==
    IF hashed_password.pw # plain_password
    THEN [verified |-> FALSE, updated |-> NoHash]
    ELSE IF hashed_password.alg = "argon2"
         THEN [verified |-> TRUE, updated |-> NoHash]
         ELSE [verified |-> TRUE, updated |-> get_password_hash(plain_password)]

\* ------------------------------------------------------------ user table
User(email, hashed_password, is_active, is_superuser) ==
    [email |-> email, hashed_password |-> hashed_password,
     is_active |-> is_active, is_superuser |-> is_superuser]

Ids == 1..MaxUsers
NoUser == 0

\* select(User).where(User.email == email) ... .first()
get_user_by_email(table, email) ==
    IF \E i \in DOMAIN table : table[i].email = email
    THEN CHOOSE i \in DOMAIN table :
            /\ table[i].email = email
            /\ \A j \in DOMAIN table : table[j].email = email => i <= j
    ELSE NoUser

\* session.get(User, id)
session_get(table, id) == IF id \in DOMAIN table THEN id ELSE NoUser

\* The unique index on user.email: may a row `id` (NoUser for a new row)
\* be written with this email?
EmailFree(table, email, id) ==
    \A i \in DOMAIN table : table[i].email = email => i = id


\* ---------------------------------------------------------------- tokens
\* What a client can put in the Authorization header.  form: "none" (no
\* header), "empty" (an empty bearer string), "garbage" (not a JWT), "jwt".
\* A jwt carries the key and algorithm of its signature, its sub and exp
\* (whole seconds) claims, and whether its payload has the shape of
\* TokenPayload.
Token(form, alg, key, sub, exp, shape) ==
    [form |-> form, alg |-> alg, key |-> key, sub |-> sub, exp |-> exp,
     shape |-> shape]

NoToken == Token("none", "-", "-", 0, 0, TRUE)
EmptyToken == Token("empty", "-", "-", 0, 0, TRUE)
GarbageToken == Token("garbage", "-", "-", 0, 0, TRUE)

Subjects == 1..(MaxUsers + 1)
ExpSecs == 0..MaxExp

JwtTokens ==
    {Token("jwt", ALGORITHM, k, s, e, sh) :
        k \in Keys, s \in Subjects, e \in ExpSecs, sh \in BOOLEAN}
    \cup {Token("jwt", "none", "-", s, e, TRUE) : s \in Subjects, e \in ExpSecs}

TokenSpace == {NoToken, EmptyToken, GarbageToken} \cup JwtTokens

\* jwt.encode({"exp": now + expires_delta, "sub": str(subject)}, SECRET_KEY,
\* algorithm=ALGORITHM): the exp datetime is written as whole seconds.
create_access_token(subject, expires_delta, key, t) ==
    Token("jwt", ALGORITHM, key, subject, (t + expires_delta) \div TicksPerSec,
          TRUE)

\* decode that does not verify the signature.
decode_unverified(token, key, t) ==
    IF token.form # "jwt" THEN "DecodeError"
    ELSE IF token.exp * TicksPerSec <= t THEN "ExpiredSignatureError"
    ELSE IF ~token.shape THEN "ValidationError"
    ELSE "ok"

\* decode that still accepts a token at the instant of its exp.
decode_late(token, key, t) ==
    IF token.form # "jwt" THEN "DecodeError"
    ELSE IF token.alg # ALGORITHM THEN "InvalidAlgorithmError"
    ELSE IF token.key # key THEN "InvalidSignatureError"
    ELSE IF token.exp * TicksPerSec < t THEN "ExpiredSignatureError"
    ELSE IF ~token.shape THEN "ValidationError"
    ELSE "ok"

\* jwt.decode(token, SECRET_KEY, algorithms=[ALGORITHM]) followed by
\* TokenPayload(**payload): "ok", or the exception raised.
decode(token, key, t) ==
    IF token.form # "jwt" THEN "DecodeError"
    ELSE IF token.alg # ALGORITHM THEN "InvalidAlgorithmError"
    ELSE IF token.key # key THEN "InvalidSignatureError"
    ELSE IF token.exp * TicksPerSec <= t THEN "ExpiredSignatureError"
    ELSE IF ~token.shape THEN "ValidationError"
    ELSE "ok"

\* ------------------------------------------------------------- outcomes
\* What a completed call reports: the call and its inputs, the HTTP status
\* and detail (200 for a returned value), the user returned, and the calls
\* it made on the way, in order.
Outcome(op, token, status, detail, header, user, trace) ==
    [op |-> op, token |-> token, email |-> "-", password |-> "-",
     status |-> status, detail |-> detail, header |-> header,
     user |-> user, trace |-> trace]

NoOutcome == Outcome("none", NoToken, 0, "-", "-", NoUser, <<>>)

\* resolve_token that tests `token is None` instead of `not token`.
resolve_token_is_none(token, key, t, table) ==
    IF token.form = "none"
    THEN Outcome("get_current_user", token, 401, "Not authenticated",
                 "WWW-Authenticate: Bearer", NoUser, <<>>)
    ELSE IF decode(token, key, t) # "ok"
    THEN Outcome("get_current_user", token, 403,
                 "Could not validate credentials", "-", NoUser,
                 <<"jwt.decode">>)
    ELSE IF session_get(table, token.sub) = NoUser
    THEN Outcome("get_current_user", token, 404, "User not found", "-",
                 NoUser, <<"jwt.decode", "session.get">>)
    ELSE IF ~table[token.sub].is_active
    THEN Outcome("get_current_user", token, 400, "Inactive user", "-",
                 NoUser, <<"jwt.decode", "session.get">>)
    ELSE Outcome("get_current_user", token, 200, "-", "-", token.sub,
                 <<"jwt.decode", "session.get">>)

\* resolve_token that answers an expired token with its own 401.
resolve_token_expired_401(token, key, t, table) ==
    IF token.form \in {"none", "empty"}
    THEN Outcome("get_current_user", token, 401, "Not authenticated",
                 "WWW-Authenticate: Bearer", NoUser, <<>>)
    ELSE IF decode(token, key, t) = "ExpiredSignatureError"
    THEN Outcome("get_current_user", token, 401, "Token expired",
                 "WWW-Authenticate: Bearer", NoUser, <<"jwt.decode">>)
    ELSE IF decode(token, key, t) # "ok"
    THEN Outcome("get_current_user", token, 403,
                 "Could not validate credentials", "-", NoUser,
                 <<"jwt.decode">>)
    ELSE IF session_get(table, token.sub) = NoUser
    THEN Outcome("get_current_user", token, 404, "User not found", "-",
                 NoUser, <<"jwt.decode", "session.get">>)
    ELSE IF ~table[token.sub].is_active
    THEN Outcome("get_current_user", token, 400, "Inactive user", "-",
                 NoUser, <<"jwt.decode", "session.get">>)
    ELSE Outcome("get_current_user", token, 200, "-", "-", token.sub,
                 <<"jwt.decode", "session.get">>)

\* resolve_token that treats the token of a deactivated user as revoked.
resolve_token_revoked_when_inactive(token, key, t, table) ==
    IF token.form \in {"none", "empty"}
    THEN Outcome("get_current_user", token, 401, "Not authenticated",
                 "WWW-Authenticate: Bearer", NoUser, <<>>)
    ELSE IF \/ decode(token, key, t) # "ok"
            \/ /\ session_get(table, token.sub) # NoUser
               /\ ~table[token.sub].is_active
    THEN Outcome("get_current_user", token, 403,
                 "Could not validate credentials", "-", NoUser,
                 <<"jwt.decode">>)
    ELSE IF session_get(table, token.sub) = NoUser
    THEN Outcome("get_current_user", token, 404, "User not found", "-",
                 NoUser, <<"jwt.decode", "session.get">>)
    ELSE Outcome("get_current_user", token, 200, "-", "-", token.sub,
                 <<"jwt.decode", "session.get">>)

\* resolve_token without the is_active test.
resolve_token_no_active(token, key, t, table) ==
    IF token.form \in {"none", "empty"}
    THEN Outcome("get_current_user", token, 401, "Not authenticated",
                 "WWW-Authenticate: Bearer", NoUser, <<>>)
    ELSE IF decode(token, key, t) # "ok"
    THEN Outcome("get_current_user", token, 403,
                 "Could not validate credentials", "-", NoUser,
                 <<"jwt.decode">>)
    ELSE IF session_get(table, token.sub) = NoUser
    THEN Outcome("get_current_user", token, 404, "User not found", "-",
                 NoUser, <<"jwt.decode", "session.get">>)
    ELSE Outcome("get_current_user", token, 200, "-", "-", token.sub,
                 <<"jwt.decode", "session.get">>)

\* get_current_user with AUTH_REQUIRED: deps.py lines 46-70.
resolve_token(token, key, t, table) ==
    IF token.form \in {"none", "empty"}
    THEN Outcome("get_current_user", token, 401, "Not authenticated",
                 "WWW-Authenticate: Bearer", NoUser, <<>>)
    ELSE IF decode(token, key, t) # "ok"
    THEN Outcome("get_current_user", token, 403,
                 "Could not validate credentials", "-", NoUser,
                 <<"jwt.decode">>)
    ELSE IF session_get(table, token.sub) = NoUser
    THEN Outcome("get_current_user", token, 404, "User not found", "-",
                 NoUser, <<"jwt.decode", "session.get">>)
    ELSE IF ~table[token.sub].is_active
    THEN Outcome("get_current_user", token, 400, "Inactive user", "-",
                 NoUser, <<"jwt.decode", "session.get">>)
    ELSE Outcome("get_current_user", token, 200, "-", "-", token.sub,
                 <<"jwt.decode", "session.get">>)


\* ------------------------------------------------------ credential store
\* UserCreate as the routes and get_or_create_default_user build it.
UserCreate(email, password, is_active, is_superuser) ==
    [email |-> email, password |-> password, is_active |-> is_active,
     is_superuser |-> is_superuser]

UserCreates(passwords, actives, supers) ==
    {UserCreate(e, p, a, s) :
        e \in Emails, p \in passwords, a \in actives, s \in supers}

\* create_user that returns its object without session.commit().
create_user_no_commit(table, user_create) ==
    [table |-> table, user |-> Len(table) + 1, error |-> "-"]

\* create_user on a table that lets a second row take an email.
create_user_unchecked(table, user_create) ==
    [table |-> Append(table,
                 User(user_create.email,
                      get_password_hash(user_create.password),
                      user_create.is_active, user_create.is_superuser)),
     user |-> Len(table) + 1,
     error |-> "-"]

\* create_user: hash, add, commit.  The commit fails with IntegrityError
\* when the email is taken, and then writes nothing.
create_user(table, user_create) ==
    IF EmailFree(table, user_create.email, NoUser)
    THEN [table |-> Append(table,
                      User(user_create.email,
                           get_password_hash(user_create.password),
                           user_create.is_active, user_create.is_superuser)),
          user |-> Len(table) + 1,
          error |-> "-"]
    ELSE [table |-> table, user |-> NoUser, error |-> "IntegrityError"]

\* The UserCreate of the default local user: crud.py lines 91-97.
DefaultUserCreate ==
    UserCreate(DEFAULT_USER_EMAIL, DEFAULT_USER_PASSWORD, TRUE, TRUE)

\* get_or_create_default_user run with nothing interleaved (as init_db
\* runs it, before the process serves requests).
get_or_create_default_user(table, email) ==
    IF get_user_by_email(table, email) # NoUser
    THEN [table |-> table, user |-> get_user_by_email(table, email),
          error |-> "-"]
    ELSE create_user(table, [DefaultUserCreate EXCEPT !.email = email])

\* init_db: db.py lines 66-75.
init_db(table, auth_required) ==
    IF auth_required THEN table
    ELSE IF get_user_by_email(table, DEFAULT_USER_EMAIL) # NoUser THEN table
    ELSE get_or_create_default_user(table, DEFAULT_USER_EMAIL).table

\* UserUpdate: a field left unset is the empty set, a field that is set
\* is the singleton of its value (model_dump(exclude_unset=True)).
Opt(S) == {{}} \cup {{x} : x \in S}

UserUpdates(passwords, actives, supers) ==
    {ui \in [email : Opt(Emails), password : Opt(passwords),
             is_active : Opt(actives), is_superuser : Opt(supers)] :
        Cardinality(ui.email) + Cardinality(ui.password)
        + Cardinality(ui.is_active) + Cardinality(ui.is_superuser)
            <= MaxFieldsSet}

Pick(opt, old) == IF opt = {} THEN old ELSE CHOOSE x \in opt : TRUE

\* sqlmodel_update(user_data, update=extra_data) on the loaded row.
sqlmodel_update(row, user_in) ==
    User(Pick(user_in.email, row.email),
         IF user_in.password = {} THEN row.hashed_password
         ELSE get_password_hash(Pick(user_in.password, "-")),
         Pick(user_in.is_active, row.is_active),
         Pick(user_in.is_superuser, row.is_superuser))

\* ------------------------------------------------- connections, sessions
\* PRAGMA busy_timeout=5000, in milliseconds.
busy_timeout == 5000

\* The busy handler sleeps and tries again; the model lets it try
\* BusySteps times within the timeout.
BusyStep == busy_timeout \div BusySteps

\* A connection as the pool gets it from sqlite3.connect (engine passes no
\* timeout, and the driver's own default is 5 s): SQLite's defaults, no
\* statement run yet.  hooks counts the calls of the "connect" listener.
RawConnection ==
    [journal_mode |-> "DELETE", foreign_keys |-> "OFF",
     busy_timeout |-> busy_timeout, synchronous |-> "FULL",
     hooks |-> 0, used |-> FALSE, idle |-> FALSE]

\* set_sqlite_pragma with PRAGMA busy_timeout=0.
set_sqlite_pragma_busy_timeout_0(dbapi_connection) ==
    [dbapi_connection EXCEPT !.journal_mode = "WAL", !.foreign_keys = "ON",
                             !.busy_timeout = 0, !.synchronous = "NORMAL",
                             !.hooks = @ + 1]

\* set_sqlite_pragma: the four PRAGMA statements, in order.
set_sqlite_pragma(dbapi_connection) ==
    [dbapi_connection EXCEPT !.journal_mode = "WAL", !.foreign_keys = "ON",
                             !.busy_timeout = busy_timeout,
                             !.synchronous = "NORMAL",
                             !.hooks = @ + 1]

\* The pool opening a connection with no listener on "connect".
connect_unhooked(pool) == Append(pool, RawConnection)

\* The pool opens a connection: the "connect" event of engine calls
\* set_sqlite_pragma (db.py line 36) before anyone gets the connection.
connect(pool) == Append(pool, set_sqlite_pragma(RawConnection))

\* The pool hands out a connection it holds idle and opens one only when
\* it holds none.
checkout(pool) ==
    IF \E c \in DOMAIN pool : pool[c].idle
    THEN LET c == CHOOSE c \in DOMAIN pool :
                    pool[c].idle /\ \A d \in DOMAIN pool : pool[d].idle => c <= d
         IN [pool |-> [pool EXCEPT ![c].idle = FALSE], id |-> c]
    ELSE [pool |-> connect(pool), id |-> Len(pool) + 1]

\* Session(engine): no connection until the first statement, nothing
\* added, no transaction.  waited is the time its busy handler has slept.
NoSession ==
    [state |-> "none", conn |-> 0, pending |-> {}, tx |-> "none", waited |-> 0]

Session == [NoSession EXCEPT !.state = "open"]

\* The session runs a statement: on its connection, checked out of the
\* pool at the first one.
execute(session, pool) ==
    LET co == IF session.conn = 0 THEN checkout(pool)
              ELSE [pool |-> pool, id |-> session.conn]
    IN [session |-> [session EXCEPT !.conn = co.id],
        pool |-> [co.pool EXCEPT ![co.id].used = TRUE]]

\* Leaving "with Session(engine) as session" on a path other than normal
\* return without closing the session.
session_exit_on_return_only(session, pool, path) ==
    IF path = "returned"
    THEN [session |-> NoSession,
          pool |-> IF session.conn = 0 THEN pool
                   ELSE [pool EXCEPT ![session.conn].idle = TRUE]]
    ELSE [session |-> session, pool |-> pool]

\* Leaving "with Session(engine) as session" (get_db, get_session):
\* Session.close() on every path: what is not committed is rolled back
\* and the connection goes back to the pool.
session_exit(session, pool, path) ==
    [session |-> NoSession,
     pool |-> IF session.conn = 0 THEN pool
              ELSE [pool EXCEPT ![session.conn].idle = TRUE]]

\* --------------------------------------------------------------- startup
\* The startup of the process (lifespan runs prestart.main before it
\* yields).  phase is the call main is at, data_dir whether
\* settings.DATA_DIR exists, alembic_ini whether run_migrations finds
\* alembic.ini, schema the tables of the database file ("none": no file or
\* no table yet, "old": those of an earlier release, "head"), opened whether
\* this process has opened the file, trace the startup steps taken.
Boot(phase, data_dir, alembic_ini, schema, opened, trace) ==
    [phase |-> phase, data_dir |-> data_dir, alembic_ini |-> alembic_ini,
     schema |-> schema, opened |-> opened, trace |-> trace]

\* A started process of an installation that has alembic.ini.
Started ==
    Boot("serving", TRUE, TRUE, "head", TRUE,
         <<"mkdir", "upgrade", "init_db", "yield">>)

\* run_migrations that logs a failed upgrade and returns.
run_migrations_logs_failure(b, mkdir_ok, upgrade_ok) ==
    IF ~b.data_dir /\ ~mkdir_ok
    THEN [b EXCEPT !.phase = "failed", !.trace = Append(@, "mkdir failed")]
    ELSE LET d == [b EXCEPT !.data_dir = TRUE, !.trace = Append(@, "mkdir")] IN
         IF ~d.alembic_ini
         THEN [d EXCEPT !.phase = "run_initial_data",
                        !.trace = Append(@, "skipping migrations")]
         ELSE IF ~upgrade_ok
         THEN [d EXCEPT !.phase = "run_initial_data", !.opened = TRUE,
                        !.trace = Append(@, "upgrade failed")]
         ELSE [d EXCEPT !.phase = "run_initial_data", !.opened = TRUE,
                        !.schema = "head", !.trace = Append(@, "upgrade")]

\* run_migrations: prestart.py lines 18-40.  mkdir(parents=True,
\* exist_ok=True) can only fail when the directory is not there; without
\* alembic.ini the function warns and returns (lines 31-33); otherwise
\* command.upgrade opens the database file and brings it to head, or
\* raises.
run_migrations(b, mkdir_ok, upgrade_ok) ==
    IF ~b.data_dir /\ ~mkdir_ok
    THEN [b EXCEPT !.phase = "failed", !.trace = Append(@, "mkdir failed")]
    ELSE LET d == [b EXCEPT !.data_dir = TRUE, !.trace = Append(@, "mkdir")] IN
         IF ~d.alembic_ini
         THEN [d EXCEPT !.phase = "run_initial_data",
                        !.trace = Append(@, "skipping migrations")]
         ELSE IF ~upgrade_ok
         THEN [d EXCEPT !.phase = "failed", !.opened = TRUE,
                        !.trace = Append(@, "upgrade failed")]
         ELSE [d EXCEPT !.phase = "run_initial_data", !.opened = TRUE,
                        !.schema = "head", !.trace = Append(@, "upgrade")]

\* run_initial_data: prestart.py lines 43-49, where init runs init_db in
\* a Session of engine.  With AUTH_REQUIRED init_db executes nothing
\* (db.py line 66); otherwise its SELECT opens the file and raises when
\* there is no user table (or for any other reason: query_ok).
run_initial_data(b, table, auth_required, query_ok) ==
    IF auth_required
    THEN [boot |-> [b EXCEPT !.phase = "yield",
                             !.trace = Append(@, "init_db")],
          table |-> table]
    ELSE IF b.schema = "none" \/ ~query_ok
    THEN [boot |-> [b EXCEPT !.phase = "failed", !.opened = TRUE,
                             !.trace = Append(@, "init_db failed")],
          table |-> table]
    ELSE [boot |-> [b EXCEPT !.phase = "yield", !.opened = TRUE,
                             !.trace = Append(@, "init_db")],
          table |-> init_db(table, auth_required)]

\* ------------------------------------------------------------------ init
\* The database file a process may find when it starts: none yet, or one
\* left by an earlier release whose hashes are bcrypt.
InitialDbs ==
    {<<>>,
     <<User("a@x.com", [alg |-> "bcrypt", pw |-> "pw1"], TRUE, FALSE)>>}

Init ==
    /\ authRequired \in BOOLEAN
    /\ secret \in Keys
    /\ \E t \in InitialDbs : db = init_db(t, authRequired)
    /\ now = 0
    /\ issued = {}
    /\ pc = [r \in Reqs |-> "idle"]
    /\ req = [r \in Reqs |-> NoToken]
    /\ sess = [r \in Reqs |-> NoSession]
    /\ conns = <<>>
    /\ boot = Started
    /\ obs = NoOutcome

\* --------------------------------------------------------------- actions
\* The process is stopped and started again on the same database file:
\* Settings() is built anew (config.py line 58), requests in flight are
\* gone with their sessions and what these had not committed, the engine
\* starts with no connection, and prestart runs init_db before the first
\* request.
Restart(auth, key) ==
    /\ authRequired' = auth
    /\ secret' = key
    /\ db' = init_db(db, auth)
    /\ pc' = [r \in Reqs |-> "idle"]
    /\ req' = [r \in Reqs |-> NoToken]
    /\ sess' = [r \in Reqs |-> NoSession]
    /\ conns' = <<>>
    /\ boot' = Started
    /\ obs' = [NoOutcome EXCEPT !.op = "init_db"]
    /\ UNCHANGED <<now, issued>>

Tick ==
    /\ now < MaxTime
    /\ now' = now + 1
    /\ obs' = [NoOutcome EXCEPT !.op = "tick"]
    /\ UNCHANGED <<boot, authRequired, secret, db, issued, pc, req, sess, conns>>

\* A route calls crud.create_user.
CreateUser(user_create) ==
    /\ Len(db) < MaxUsers
    /\ LET res == create_user(db, user_create) IN
        /\ db' = res.table
        /\ obs' = [Outcome("create_user", NoToken,
                           IF res.error = "-" THEN 200 ELSE 500,
                           res.error, "-", res.user,
                           <<"get_password_hash", "commit">>)
                   EXCEPT !.email = user_create.email,
                          !.password = user_create.password]
    /\ UNCHANGED <<boot, authRequired, secret, now, issued, pc, req, sess, conns>>

\* A route loads user id and calls crud.update_user.
UpdateUser(id, user_in) ==
    /\ id \in DOMAIN db
    /\ LET row == sqlmodel_update(db[id], user_in)
           ok == EmailFree(db, row.email, id)
       IN
        /\ db' = IF ok THEN [db EXCEPT ![id] = row] ELSE db
        /\ obs' = [Outcome("update_user", NoToken,
                           IF ok THEN 200 ELSE 500,
                           IF ok THEN "-" ELSE "IntegrityError", "-",
                           IF ok THEN id ELSE NoUser,
                           IF user_in.password = {} THEN <<"commit">>
                           ELSE <<"get_password_hash", "commit">>)
                   EXCEPT !.password = Pick(user_in.password, "-")]
    /\ UNCHANGED <<boot, authRequired, secret, now, issued, pc, req, sess, conns>>


\* authenticate that returns None for an unknown email without the
\* verify_password call on DUMMY_HASH.
authenticate_no_dummy_verify(table, email, password) ==
    LET db_user == get_user_by_email(table, email) IN
    IF db_user = NoUser
    THEN [table |-> table, user |-> NoUser,
          check |-> [verified |-> FALSE, updated |-> NoHash],
          trace |-> <<"get_user_by_email">>]
    ELSE LET res == verify_password(password, table[db_user].hashed_password) IN
         [table |-> IF res.verified /\ res.updated # NoHash
                    THEN [table EXCEPT ![db_user].hashed_password = res.updated]
                    ELSE table,
          user |-> IF res.verified THEN db_user ELSE NoUser,
          check |-> res,
          trace |-> IF res.verified /\ res.updated # NoHash
                    THEN <<"get_user_by_email", "verify_password", "commit">>
                    ELSE <<"get_user_by_email", "verify_password">>]

\* authenticate that returns the user without storing the upgraded hash.
authenticate_no_upgrade_commit(table, email, password) ==
    LET db_user == get_user_by_email(table, email) IN
    IF db_user = NoUser
    THEN [table |-> table, user |-> NoUser,
          check |-> verify_password(password, DUMMY_HASH),
          trace |-> <<"get_user_by_email", "verify_password">>]
    ELSE LET res == verify_password(password, table[db_user].hashed_password) IN
         [table |-> table,
          user |-> IF res.verified THEN db_user ELSE NoUser,
          check |-> res,
          trace |-> <<"get_user_by_email", "verify_password">>]

\* authenticate that writes the row (an UPDATE, which takes the write
\* lock) before it verifies the password.
authenticate_verify_under_lock(table, email, password) ==
    LET db_user == get_user_by_email(table, email) IN
    IF db_user = NoUser
    THEN [table |-> table, user |-> NoUser,
          check |-> verify_password(password, DUMMY_HASH),
          trace |-> <<"get_user_by_email", "verify_password">>]
    ELSE LET res == verify_password(password, table[db_user].hashed_password) IN
         IF ~res.verified
         THEN [table |-> table, user |-> NoUser, check |-> res,
               trace |-> <<"get_user_by_email", "UPDATE", "verify_password",
                           "rollback">>]
         ELSE [table |-> [table EXCEPT ![db_user].hashed_password =
                              IF res.updated # NoHash THEN res.updated ELSE @],
               user |-> db_user, check |-> res,
               trace |-> <<"get_user_by_email", "UPDATE", "verify_password",
                           "commit">>]

\* authenticate: crud.py lines 53-72.  user is NoUser for None.
authenticate(table, email, password) ==
    LET db_user == get_user_by_email(table, email) IN
    IF db_user = NoUser
    THEN [table |-> table, user |-> NoUser,
          check |-> verify_password(password, DUMMY_HASH),
          trace |-> <<"get_user_by_email", "verify_password">>]
    ELSE LET res == verify_password(password, table[db_user].hashed_password) IN
         IF ~res.verified
         THEN [table |-> table, user |-> NoUser, check |-> res,
               trace |-> <<"get_user_by_email", "verify_password">>]
         ELSE IF res.updated # NoHash
         THEN [table |-> [table EXCEPT ![db_user].hashed_password = res.updated],
               user |-> db_user, check |-> res,
               trace |-> <<"get_user_by_email", "verify_password", "commit">>]
         ELSE [table |-> table, user |-> db_user, check |-> res,
               trace |-> <<"get_user_by_email", "verify_password">>]

\* The login route calls crud.authenticate.
Authenticate(email, password) ==
    /\ LET res == authenticate(db, email, password) IN
        /\ db' = res.table
        /\ obs' = [Outcome("authenticate", NoToken, 200, "-", "-", res.user,
                           res.trace)
                   EXCEPT !.email = email, !.password = password]
    /\ UNCHANGED <<boot, authRequired, secret, now, issued, pc, req, sess, conns>>

\* get_current_user whose default-user branch creates without looking up.
get_current_user_no_lookup(auth_required, token, key, t, table) ==
    IF ~auth_required
    THEN Outcome("get_current_user", token, 0, "-", "-", NoUser,
                 <<"get_user_by_email">>)
    ELSE resolve_token(token, key, t, table)

\* get_current_user up to its first return or, without AUTH_REQUIRED and
\* with no default user found, up to the create_user call (status 0: the
\* call goes on in CreateDefaultUser).
get_current_user(auth_required, token, key, t, table) ==
    IF ~auth_required
    THEN LET user == get_user_by_email(table, DEFAULT_USER_EMAIL) IN
         Outcome("get_current_user", token,
                 IF user = NoUser THEN 0 ELSE 200, "-", "-", user,
                 <<"get_user_by_email">>)
    ELSE resolve_token(token, key, t, table)

\* Request r arrives with a token and runs the get_current_user dependency.
GetCurrentUser(r, token) ==
    /\ pc[r] = "idle"
    /\ LET out == get_current_user(authRequired, token, secret, now, db) IN
        /\ obs' = out
        /\ IF out.status = 0
           THEN /\ pc' = [pc EXCEPT ![r] = "create"]
                /\ req' = [req EXCEPT ![r] = token]
           ELSE UNCHANGED <<pc, req>>
    /\ UNCHANGED <<boot, authRequired, secret, db, now, issued, sess, conns>>

\* get_current_active_superuser that lets every active user through.
get_current_active_superuser_any(current_user, table) ==
    [status |-> 200, detail |-> "-", user |-> current_user]

\* get_current_active_superuser: deps.py lines 76-81, on the id of the
\* user that get_current_user returned.
get_current_active_superuser(current_user, table) ==
    IF ~table[current_user].is_superuser
    THEN [status |-> 403,
          detail |-> "The user doesn't have enough privileges",
          user |-> NoUser]
    ELSE [status |-> 200, detail |-> "-", user |-> current_user]

\* Request r arrives at a route that depends on
\* get_current_active_superuser: get_current_user runs first, and its
\* HTTPException ends the request before the superuser check; a request
\* that finds no default user goes on in CreateDefaultUser, whose new row
\* has is_superuser set (crud.py line 96).
GetCurrentActiveSuperuser(r, token) ==
    /\ pc[r] = "idle"
    /\ LET cu == get_current_user(authRequired, token, secret, now, db)
           su == get_current_active_superuser(cu.user, db)
       IN
        /\ obs' = IF cu.status # 200
                  THEN [cu EXCEPT !.op = "get_current_active_superuser"]
                  ELSE [cu EXCEPT !.op = "get_current_active_superuser",
                                  !.status = su.status,
                                  !.detail = su.detail,
                                  !.user = su.user]
        /\ IF cu.status = 0
           THEN /\ pc' = [pc EXCEPT ![r] = "create"]
                /\ req' = [req EXCEPT ![r] = token]
           ELSE UNCHANGED <<pc, req>>
    /\ UNCHANGED <<boot, authRequired, secret, db, now, issued, sess, conns>>

\* Request r, having found no default user, runs create_user and returns
\* its user; an IntegrityError leaves get_current_user as a 500.
CreateDefaultUser(r) ==
    /\ pc[r] = "create"
    /\ LET res == create_user(db, DefaultUserCreate) IN
        /\ db' = res.table
        /\ obs' = Outcome("get_current_user", req[r],
                          IF res.error = "-" THEN 200 ELSE 500,
                          res.error, "-", res.user,
                          <<"get_user_by_email", "get_password_hash", "commit">>)
    /\ pc' = [pc EXCEPT ![r] = "idle"]
    /\ req' = [req EXCEPT ![r] = NoToken]
    /\ UNCHANGED <<boot, authRequired, secret, now, issued, sess, conns>>

\* A caller (the login route) asks for a token.
IssuedToken(tok, subject, iat, ttl) ==
    [tok |-> tok, subject |-> subject, iat |-> iat, ttl |-> ttl]

IssueToken(subject, ttl) ==
    /\ Cardinality(issued) < MaxTokens
    /\ LET tok == create_access_token(subject, ttl, secret, now) IN
        /\ issued' = issued \cup {IssuedToken(tok, subject, now, ttl)}
        /\ obs' = Outcome("create_access_token", tok, 200, "-", "-", NoUser,
                          <<"jwt.encode">>)
    /\ UNCHANGED <<boot, authRequired, secret, db, now, pc, req, sess, conns>>

\* ------------------------------------------- a request and its session
\* The steps of one request r whose route depends on get_db and on
\* get_current_user and calls crud.create_user.  pc[r] goes from "idle"
\* through "open", "route", "added", "waiting", "flushed" to the way the
\* request leaves ("returned", "HTTPException", "Exception", "aborted")
\* and back to "idle" when get_db's with block is left.

\* get_db up to its yield.
GetDb(r) ==
    /\ pc[r] = "idle"
    /\ pc' = [pc EXCEPT ![r] = "open"]
    /\ sess' = [sess EXCEPT ![r] = Session]
    /\ obs' = Outcome("get_db", NoToken, 0, "-", "-", NoUser, <<>>)
    /\ UNCHANGED <<boot, authRequired, secret, db, now, issued, req, conns>>

\* get_current_user on the session of r: what it reads it reads over the
\* session's connection, what it raises ends the request.  (Without a
\* default user the call is the one of GetCurrentUser and
\* CreateDefaultUser.)
ResolveCurrentUser(r, token) ==
    /\ pc[r] = "open"
    /\ LET cu == get_current_user(authRequired, token, secret, now, db)
           reads == \E i \in DOMAIN cu.trace :
                        cu.trace[i] \in {"session.get", "get_user_by_email"}
           ex == IF reads THEN execute(sess[r], conns)
                 ELSE [session |-> sess[r], pool |-> conns]
       IN
        /\ cu.status # 0
        /\ sess' = [sess EXCEPT ![r] = ex.session]
        /\ conns' = ex.pool
        /\ pc' = [pc EXCEPT ![r] = IF cu.status = 200 THEN "route"
                                    ELSE "HTTPException"]
        /\ obs' = cu
    /\ UNCHANGED <<boot, authRequired, secret, db, now, issued, req>>

\* The route returns without writing.
Return(r) ==
    /\ pc[r] = "route"
    /\ pc' = [pc EXCEPT ![r] = "returned"]
    /\ obs' = Outcome("return", NoToken, 200, "-", "-", NoUser, <<>>)
    /\ UNCHANGED <<boot, authRequired, secret, db, now, issued, req, sess, conns>>

\* create_user lines 12-15: the password is hashed and the object added
\* to the session; the database is not touched.
CreateUserAdd(r, user_create) ==
    /\ pc[r] = "route"
    /\ pc' = [pc EXCEPT ![r] = "added"]
    /\ sess' = [sess EXCEPT ![r].pending =
                    {User(user_create.email,
                          get_password_hash(user_create.password),
                          user_create.is_active, user_create.is_superuser)}]
    /\ obs' = [Outcome("create_user", NoToken, 0, "-", "-", NoUser,
                       <<"get_password_hash", "session.add">>)
               EXCEPT !.email = user_create.email,
                      !.password = user_create.password]
    /\ UNCHANGED <<boot, authRequired, secret, db, now, issued, req, conns>>

\* Another session has flushed and not yet committed or rolled back: it
\* holds the write lock of the database file.
WriteLocked(r) == \E q \in Reqs \ {r} : sess[q].tx = "write"

\* The INSERT of the added object: it waits when the file is locked,
\* fails on a taken email, and otherwise takes the write lock.
insert(session, table, locked) ==
    LET row == CHOOSE row \in session.pending : TRUE IN
    IF locked
    THEN [session |-> session, pc |-> "waiting", detail |-> "-"]
    ELSE IF ~EmailFree(table, row.email, NoUser)
    THEN [session |-> session, pc |-> "Exception",
          detail |-> "IntegrityError"]
    ELSE [session |-> [session EXCEPT !.tx = "write"], pc |-> "flushed",
          detail |-> "-"]

\* create_user line 16, session.commit(), first half: the flush sends the
\* INSERT over the session's connection.
CreateUserFlush(r) ==
    /\ pc[r] = "added"
    /\ LET ex == execute(sess[r], conns)
           ins == insert(ex.session, db, WriteLocked(r))
       IN
        /\ sess' = [sess EXCEPT ![r] = ins.session]
        /\ conns' = ex.pool
        /\ pc' = [pc EXCEPT ![r] = ins.pc]
        /\ obs' = Outcome("flush", NoToken,
                          IF ins.pc = "Exception" THEN 500 ELSE 0,
                          ins.detail, "-", NoUser, <<"INSERT">>)
    /\ UNCHANGED <<boot, authRequired, secret, db, now, issued, req>>

\* The busy handler of the connection of r: it tries the lock again, goes
\* on sleeping while the time slept stays within the connection's
\* busy_timeout, and gives up after that ("database is locked").
BusyHandler(r) ==
    /\ pc[r] = "waiting"
    /\ LET ins == insert(sess[r], db, FALSE)
           slept == sess[r].waited + BusyStep
       IN
        IF ~WriteLocked(r)
        THEN /\ sess' = [sess EXCEPT ![r] = ins.session]
             /\ pc' = [pc EXCEPT ![r] = ins.pc]
             /\ obs' = Outcome("flush", NoToken,
                               IF ins.pc = "Exception" THEN 500 ELSE 0,
                               ins.detail, "-", NoUser, <<"INSERT">>)
        ELSE IF slept <= conns[sess[r].conn].busy_timeout
        THEN /\ sess' = [sess EXCEPT ![r].waited = slept]
             /\ pc' = pc
             /\ obs' = Outcome("busy_handler", NoToken, 0, "-", "-", NoUser,
                               <<"sleep">>)
        ELSE /\ sess' = sess
             /\ pc' = [pc EXCEPT ![r] = "Exception"]
             /\ obs' = Outcome("flush", NoToken, 500,
                               "OperationalError: database is locked", "-",
                               NoUser, <<"INSERT">>)
    /\ UNCHANGED <<boot, authRequired, secret, db, now, issued, req, conns>>

\* create_user lines 16-18, session.commit(), second half: COMMIT makes
\* the row part of the table and gives up the write lock.
CreateUserCommit(r) ==
    /\ pc[r] = "flushed"
    /\ LET row == CHOOSE row \in sess[r].pending : TRUE IN
        /\ db' = Append(db, row)
        /\ obs' = [Outcome("create_user", NoToken, 200, "-", "-",
                           Len(db) + 1, <<"commit">>)
                   EXCEPT !.email = row.email]
    /\ sess' = [sess EXCEPT ![r].pending = {}, ![r].tx = "none"]
    /\ pc' = [pc EXCEPT ![r] = "returned"]
    /\ UNCHANGED <<boot, authRequired, secret, now, issued, req, conns>>

\* The request is cancelled where it stands.
Abort(r) ==
    /\ pc[r] \in {"open", "route", "added", "waiting", "flushed"}
    /\ pc' = [pc EXCEPT ![r] = "aborted"]
    /\ obs' = Outcome("abort", NoToken, 0, "-", "-", NoUser, <<>>)
    /\ UNCHANGED <<boot, authRequired, secret, db, now, issued, req, sess, conns>>

\* get_db after its yield: the with block is left, by return, by the
\* exception thrown into the generator, or by the generator being closed.
GetDbExit(r) ==
    /\ pc[r] \in {"returned", "HTTPException", "Exception", "aborted"}
    /\ LET ex == session_exit(sess[r], conns, pc[r]) IN
        /\ sess' = [sess EXCEPT ![r] = ex.session]
        /\ conns' = ex.pool
    /\ pc' = [pc EXCEPT ![r] = "idle"]
    /\ obs' = Outcome("get_db_exit", NoToken, 0, pc[r], "-", NoUser,
                      IF sess[r].pending # {}
                      THEN <<"rollback", "close">> ELSE <<"close">>)
    /\ UNCHANGED <<boot, authRequired, secret, db, now, issued, req>>

\* ------------------------------------------------------ startup, by step
\* main (prestart.py lines 52-55) calls run_migrations.  An exception
\* leaves main and lifespan, and the process ends without serving.
RunMigrations(mkdir_ok, upgrade_ok) ==
    /\ boot.phase = "run_migrations"
    /\ boot' = run_migrations(boot, mkdir_ok, upgrade_ok)
    /\ obs' = [NoOutcome EXCEPT !.op = "run_migrations",
                                !.detail = boot'.trace[Len(boot'.trace)]]
    /\ UNCHANGED <<authRequired, secret, db, now, issued, pc, req, sess,
                   conns>>

\* main goes on with run_initial_data once run_migrations has returned.
RunInitialData(query_ok) ==
    /\ boot.phase = "run_initial_data"
    /\ LET res == run_initial_data(boot, db, authRequired, query_ok) IN
        /\ boot' = res.boot
        /\ db' = res.table
        /\ obs' = [NoOutcome EXCEPT !.op = "run_initial_data",
                                    !.detail = boot'.trace[Len(boot'.trace)]]
    /\ UNCHANGED <<authRequired, secret, now, issued, pc, req, sess, conns>>

\* lifespan: main.py lines 14-20.  prestart() has returned and lifespan
\* yields; the server accepts requests from here on.
LifespanYield ==
    /\ boot.phase = "yield"
    /\ boot' = [boot EXCEPT !.phase = "serving", !.trace = Append(@, "yield")]
    /\ obs' = [NoOutcome EXCEPT !.op = "lifespan", !.detail = "yield"]
    /\ UNCHANGED <<authRequired, secret, db, now, issued, pc, req, sess,
                   conns>>

\* The serving process answers a request whose route calls
\* crud.create_user; without a user table the statement fails.
Serve(user_create) ==
    /\ boot.phase = "serving"
    /\ IF boot.schema = "none"
       THEN /\ obs' = [Outcome("create_user", NoToken, 500,
                               "OperationalError: no such table", "-",
                               NoUser, <<"get_password_hash", "commit">>)
                       EXCEPT !.email = user_create.email,
                              !.password = user_create.password]
            /\ UNCHANGED <<boot, authRequired, secret, db, now, issued, pc,
                           req, sess, conns>>
       ELSE CreateUser(user_create)

\* -------------------------------------------------------- specifications
\* The process with AUTH_REQUIRED=true: users come and go, the login flow
\* authenticates, requests carry any token a client can make up.
InitAuth == Init /\ authRequired

NextAuth ==
    \/ \E k \in Keys : Restart(TRUE, k)
    \/ Tick
    \/ \E uc \in UserCreates({"pw1"}, BOOLEAN, {FALSE}) : CreateUser(uc)
    \/ \E id \in Ids, ui \in UserUpdates({"pw1"}, BOOLEAN, {FALSE}) : UpdateUser(id, ui)
    \/ \E r \in Reqs, t \in TokenSpace : GetCurrentUser(r, t)

SpecAuth == InitAuth /\ [][NextAuth]_vars

\* The desktop process, AUTH_REQUIRED=false: requests run concurrently and
\* carry no token, garbage, or a token that would or would not validate.
DefaultModeTokens ==
    {NoToken, GarbageToken,
     Token("jwt", ALGORITHM, "k1", 1, 0, TRUE),
     Token("jwt", ALGORITHM, "k1", 1, 1, TRUE)}

InitDefault == Init /\ ~authRequired

NextDefault ==
    \/ \E k \in Keys : Restart(FALSE, k)
    \/ \E uc \in UserCreates({"pw1"}, {TRUE}, {FALSE}) : CreateUser(uc)
    \/ \E id \in Ids, ui \in UserUpdates({"pw1"}, {TRUE}, {FALSE}) : UpdateUser(id, ui)
    \/ \E r \in Reqs, t \in DefaultModeTokens : GetCurrentUser(r, t)
    \/ \E r \in Reqs : CreateDefaultUser(r)

SpecDefault == InitDefault /\ [][NextDefault]_vars

\* The login flow: users are created and changed, and authenticate is
\* tried with every email and password.
NextLogin ==
    \/ \E a \in BOOLEAN, k \in Keys : Restart(a, k)
    \/ \E uc \in UserCreates(Passwords, BOOLEAN, {FALSE}) : CreateUser(uc)
    \/ \E id \in Ids, ui \in UserUpdates(Passwords, BOOLEAN, {FALSE}) : UpdateUser(id, ui)
    \/ \E e \in Emails \cup {"nouser@x.com"}, p \in Passwords :
            Authenticate(e, p)

SpecLogin == Init /\ [][NextLogin]_vars

\* The credential store under every writer of the user table at once:
\* routes create and change users, logins authenticate, processes start
\* in either mode, and requests without AUTH_REQUIRED race through
\* get_or_create_default_user.
NextStore ==
    \/ \E a \in BOOLEAN : Restart(a, "k1")
    \/ \E uc \in UserCreates({"pw1"}, {TRUE}, {FALSE}) : CreateUser(uc)
    \/ \E id \in Ids, ui \in UserUpdates({"pw1"}, {TRUE}, {FALSE}) : UpdateUser(id, ui)
    \/ \E e \in Emails : Authenticate(e, "pw1")
    \/ \E r \in Reqs : GetCurrentUser(r, NoToken)
    \/ \E r \in Reqs : CreateDefaultUser(r)

SpecStore == Init /\ [][NextStore]_vars

\* Routes for superusers only, in either mode: users with and without
\* is_superuser come and go, and requests carry no token or a token for
\* either user id.
SuperTokens ==
    {NoToken,
     Token("jwt", ALGORITHM, "k1", 1, 1, TRUE),
     Token("jwt", ALGORITHM, "k1", 2, 1, TRUE)}

InitSuper == Init /\ secret = "k1"

NextSuper ==
    \/ \E a \in BOOLEAN : Restart(a, "k1")
    \/ \E uc \in UserCreates({"pw1"}, {TRUE}, BOOLEAN) : CreateUser(uc)
    \/ \E id \in Ids, ui \in UserUpdates({}, {FALSE}, BOOLEAN) : UpdateUser(id, ui)
    \/ \E r \in Reqs, t \in SuperTokens : GetCurrentActiveSuperuser(r, t)
    \/ \E r \in Reqs : CreateDefaultUser(r)

SpecSuper == InitSuper /\ [][NextSuper]_vars

\* A token in the hands of a client while the process does everything
\* else: time passes, the process restarts with another SECRET_KEY,
\* other tokens are issued, logins upgrade hashes, passwords change and
\* users are deactivated.
HeldTokens ==
    {Token("jwt", ALGORITHM, "k1", 1, 1, TRUE)}

NextStateless ==
    \/ \E k \in Keys : Restart(TRUE, k)
    \/ Tick
    \/ IssueToken(1, MaxTTL)
    \/ \E ui \in UserUpdates({"pw2"}, {FALSE}, {}) : UpdateUser(1, ui)
    \/ Authenticate("a@x.com", "pw1")
    \/ \E r \in Reqs, t \in HeldTokens \cup {i.tok : i \in issued} :
            GetCurrentUser(r, t)

SpecStateless == InitAuth /\ [][NextStateless]_vars

\* Requests with AUTH_REQUIRED, each with its session from get_db to the
\* end of the with block: they resolve the user, write through
\* create_user at the same time, are cancelled, and the process restarts.
SessionTokens ==
    {NoToken, Token("jwt", ALGORITHM, "k1", 1, 1, TRUE)}

NextSession ==
    \/ Restart(TRUE, "k1")
    \/ \E r \in Reqs : GetDb(r)
    \/ \E r \in Reqs, t \in SessionTokens : ResolveCurrentUser(r, t)
    \/ \E r \in Reqs : Return(r)
    \/ \E r \in Reqs, uc \in UserCreates({"pw1"}, {TRUE}, {FALSE}) :
            CreateUserAdd(r, uc)
    \/ \E r \in Reqs : CreateUserFlush(r)
    \/ \E r \in Reqs : BusyHandler(r)
    \/ \E r \in Reqs : CreateUserCommit(r)
    \/ \E r \in Reqs : Abort(r)
    \/ \E r \in Reqs : GetDbExit(r)

InitSession == InitAuth /\ secret = "k1"

SpecSession == InitSession /\ [][NextSession]_vars

\* The token service over time and restarts: tokens are issued, and come
\* back in requests as issued or with their signature altered.
Tamper(token) == [token EXCEPT !.key = "altered"]

NextToken ==
    \/ \E k \in Keys : Restart(TRUE, k)
    \/ Tick
    \/ \E s \in Subjects, ttl \in 0..MaxTTL : IssueToken(s, ttl)
    \/ \E r \in Reqs, i \in issued :
            \E t \in {i.tok, Tamper(i.tok)} : GetCurrentUser(r, t)

SpecToken == InitAuth /\ [][NextToken]_vars

\* The startup of a process, step by step, on the installations and
\* database files it may find, and the requests it then serves.
DatabaseFiles ==
    {f \in [data_dir : BOOLEAN, schema : {"none", "old", "head"},
            table : InitialDbs] :
        /\ ~f.data_dir => f.schema = "none"
        /\ f.schema = "none" => f.table = <<>>}

InitStartup ==
    /\ authRequired \in BOOLEAN
    /\ secret = "k1"
    /\ \E f \in DatabaseFiles, ini \in BOOLEAN :
        /\ db = f.table
        /\ boot = Boot("run_migrations", f.data_dir, ini, f.schema, FALSE, <<>>)
    /\ now = 0
    /\ issued = {}
    /\ pc = [r \in Reqs |-> "idle"]
    /\ req = [r \in Reqs |-> NoToken]
    /\ sess = [r \in Reqs |-> NoSession]
    /\ conns = <<>>
    /\ obs = NoOutcome

NextStartup ==
    \/ \E mkdir_ok \in BOOLEAN, upgrade_ok \in BOOLEAN :
            RunMigrations(mkdir_ok, upgrade_ok)
    \/ \E query_ok \in BOOLEAN : RunInitialData(query_ok)
    \/ LifespanYield
    \/ \E uc \in UserCreates({"pw1"}, {TRUE}, BOOLEAN) : Serve(uc)

SpecStartup == InitStartup /\ [][NextStartup]_vars

\* ---------------------------------------------------------------- claims
\* obs is the report of the step just taken, and a get_current_user step
\* leaves the settings, the clock and (unless it creates the default user)
\* the table as they were: a state predicate over obs speaks of the request
\* at the time it was served.
Resolved == obs.op = "get_current_user" /\ obs.status # 0

SignatureVerifies(token) ==
    token.form = "jwt" /\ token.alg = ALGORITHM /\ token.key = secret

Expired(token) == token.exp * TicksPerSec <= now

Validates(token) ==
    SignatureVerifies(token) /\ ~Expired(token) /\ token.shape

DefaultRows(table) ==
    {i \in DOMAIN table : table[i].email = DEFAULT_USER_EMAIL}

\* C1: with AUTH_REQUIRED, get_current_user returns user u only if a token
\* was presented, its signature verifies under the current SECRET_KEY with
\* the fixed algorithm, it is not expired, its subject is u.id, and u is in
\* the table and active; and nothing but a 200 carries a user.
C1_ResolvedIdentityIsBackedByValidToken ==
    (authRequired /\ Resolved) =>
        /\ obs.user # NoUser <=> obs.status = 200
        /\ obs.status = 200 =>
            /\ obs.token.form \notin {"none", "empty"}
            /\ SignatureVerifies(obs.token)
            /\ ~Expired(obs.token)
            /\ obs.token.sub = obs.user
            /\ obs.user \in DOMAIN db
            /\ db[obs.user].is_active

C1_Witness ==
    /\ authRequired /\ Resolved /\ obs.status = 200
    /\ Len(db) = 2 /\ now > 0

\* C8: with AUTH_REQUIRED and no token (absent or empty), get_current_user
\* fails with 401 "Not authenticated" and WWW-Authenticate: Bearer, having
\* decoded nothing and read nothing, and returns no user.
C8_NoTokenIsUnauthenticated ==
    (authRequired /\ Resolved /\ obs.token.form \in {"none", "empty"}) =>
        /\ obs.status = 401
        /\ obs.detail = "Not authenticated"
        /\ obs.header = "WWW-Authenticate: Bearer"
        /\ obs.user = NoUser
        /\ obs.trace = <<>>

C8_Witness ==
    /\ authRequired /\ Resolved /\ obs.token = EmptyToken /\ obs.status = 401
    /\ \E i \in DOMAIN db : db[i].is_active

\* C9: with AUTH_REQUIRED and a token present, every validation failure
\* (not a JWT, bad signature or algorithm, payload of the wrong shape,
\* expired) gives the same 403 "Could not validate credentials", and the
\* user table is not read.
C9_ValidationFailuresAreOne403 ==
    (/\ authRequired /\ Resolved
     /\ obs.token.form \notin {"none", "empty"}
     /\ ~Validates(obs.token)) =>
        obs = Outcome("get_current_user", obs.token, 403,
                      "Could not validate credentials", "-", NoUser,
                      <<"jwt.decode">>)

C9_Witness ==
    /\ authRequired /\ Resolved /\ obs.status = 403
    /\ SignatureVerifies(obs.token) /\ obs.token.shape /\ Expired(obs.token)
    /\ obs.token.sub \in DOMAIN db /\ db[obs.token.sub].is_active

\* C10: after a token validates, the user is read from the table on that
\* request: no row with the subject as id gives 404 "User not found", a
\* row with is_active false gives 400 "Inactive user", and otherwise that
\* user is returned; so a user who is inactive now is refused although the
\* token still validates.
C10_ValidTokenResolvesAgainstCurrentRow ==
    (authRequired /\ Resolved /\ Validates(obs.token)) =>
        /\ obs.trace = <<"jwt.decode", "session.get">>
        /\ IF obs.token.sub \notin DOMAIN db
           THEN obs.status = 404 /\ obs.detail = "User not found"
                /\ obs.user = NoUser
           ELSE IF ~db[obs.token.sub].is_active
           THEN obs.status = 400 /\ obs.detail = "Inactive user"
                /\ obs.user = NoUser
           ELSE obs.status = 200 /\ obs.user = obs.token.sub

C10_Witness ==
    /\ authRequired /\ Resolved /\ Validates(obs.token)
    /\ obs.status = 400 /\ now > 0
    /\ obs.token.sub \in DOMAIN db /\ ~db[obs.token.sub].is_active

\* C2: without AUTH_REQUIRED, every get_current_user call returns the user
\* whose email is DEFAULT_USER_EMAIL, whatever the token (absent, valid,
\* malformed, expired), and decodes no token and verifies no password.
C2_DefaultUserForEveryRequest ==
    (~authRequired /\ Resolved) =>
        /\ obs.status = 200
        /\ obs.user \in DefaultRows(db)
        /\ \A i \in DOMAIN obs.trace :
                obs.trace[i] \notin {"jwt.decode", "verify_password"}

\* C3: once the default user exists, a get_or_create_default_user call run
\* from start to end (a request that looks the user up, or init_db when a
\* process starts on the same file) returns the id of that row, leaves the
\* table as it was, never goes on to create, and the table holds exactly
\* one row with that email.
LookupStep ==
    /\ obs'.op = "get_current_user"
    /\ \A r \in Reqs : pc[r] = "create" => pc'[r] = "create"

C3_GetOrCreateIsIdempotent ==
    [][(/\ ~authRequired'
        /\ DefaultRows(db) # {}
        /\ LookupStep \/ obs'.op = "init_db")
       =>
       (/\ db' = db
        /\ Cardinality(DefaultRows(db')) = 1
        /\ LookupStep =>
            /\ obs'.status = 200
            /\ obs'.user \in DefaultRows(db)
            /\ pc' = pc)]_vars

C3_Witness ==
    /\ ~authRequired /\ Resolved /\ obs.status = 200
    /\ obs.trace = <<"get_user_by_email">>
    /\ obs.user = 2 /\ db[2].email = DEFAULT_USER_EMAIL
    /\ db[1].email # DEFAULT_USER_EMAIL

\* C4: without AUTH_REQUIRED, however the first get_current_user calls
\* interleave, a call that has ended leaves exactly one row with
\* DEFAULT_USER_EMAIL, and a call that returns a user returns that row's id.
C4_ConcurrentFirstCallsMakeOneDefaultUser ==
    /\ Cardinality(DefaultRows(db)) <= 1
    /\ (~authRequired /\ Resolved) =>
        /\ Cardinality(DefaultRows(db)) = 1
        /\ obs.status = 200 => obs.user \in DefaultRows(db)

C4_Witness ==
    /\ ~authRequired /\ Resolved /\ obs.status = 200
    /\ obs.trace = <<"get_user_by_email", "get_password_hash", "commit">>
    /\ \E r \in Reqs : pc[r] = "create"

\* C5: a get_current_user call that went on to create the default user
\* while another call created it (the newest row has the default email
\* and the default user's password) does not fail on the duplicate email:
\* it returns that user.
C5_LosingCreatorReturnsDefaultUser ==
    (/\ ~authRequired /\ Resolved
     /\ obs.trace = <<"get_user_by_email", "get_password_hash", "commit">>
     /\ \E i \in DefaultRows(db) :
            /\ i = Len(db) /\ i > 1
            /\ db[i].hashed_password = get_password_hash(DEFAULT_USER_PASSWORD)) =>
        obs.status = 200 /\ obs.user \in DefaultRows(db)

\* C6: authenticate with the right password never returns a user whose
\* is_active is false.
C6_InactiveUserIsNotAuthenticated ==
    (obs.op = "authenticate" /\ obs.user # NoUser) => db[obs.user].is_active

\* C7 as stated: a token from create_access_token(subject, ttl) validates
\* at every instant before ttl has elapsed since it was issued, and is
\* rejected at every instant after, and whenever its signature is altered.
TokenOutcome(i) ==
    Resolved /\ obs.token \in {i.tok, Tamper(i.tok)}

C7_TokenValidForWholeTtl ==
    \A i \in issued :
        TokenOutcome(i) =>
            /\ (obs.token = i.tok /\ now - i.iat < i.ttl) => obs.status # 403
            /\ (obs.token = i.tok /\ now - i.iat > i.ttl) => obs.status = 403
            /\ obs.token = Tamper(i.tok) => obs.status = 403

\* C7 amended: the token's exp is the instant of issuance plus ttl cut down
\* to a whole second.  Under the SECRET_KEY that signed it the token
\* validates to its subject at every instant before exp and is rejected
\* with 403 from exp on, so at every instant once ttl has elapsed; under
\* another SECRET_KEY, or with its signature altered, it is rejected.
C7_TokenValidUntilTruncatedExp ==
    \A i \in issued :
        /\ i.tok.exp = (i.iat + i.ttl) \div TicksPerSec
        /\ i.tok.sub = i.subject
        /\ TokenOutcome(i) =>
            /\ (obs.token = i.tok /\ i.tok.key = secret) =>
                    (obs.status # 403 <=> now < i.tok.exp * TicksPerSec)
            /\ (obs.token = i.tok /\ obs.status = 200) => obs.user = i.subject
            /\ (obs.token = i.tok /\ i.tok.key # secret) => obs.status = 403
            /\ now - i.iat >= i.ttl => obs.status = 403
            /\ obs.token = Tamper(i.tok) => obs.status = 403

C7_Witness ==
    \E i \in issued :
        /\ TokenOutcome(i) /\ obs.token = i.tok /\ obs.status = 403
        /\ i.tok.key = secret
        /\ now - i.iat < i.ttl

\* C11: authenticate with the email and password a user was created with
\* returns that user, and with that email and any other password returns
\* None; for an email no row has it returns None whatever the password;
\* and in general it returns the row with that email exactly when the
\* password is the one the row's hash was computed from.
C11_AuthenticateReturnsCreatedUser ==
    [][obs'.op = "authenticate" =>
        LET i == get_user_by_email(db, obs'.email) IN
        /\ (obs.op = "create_user" /\ obs.status = 200
                /\ obs'.email = obs.email) =>
             obs'.user = (IF obs'.password = obs.password
                          THEN obs.user ELSE NoUser)
        /\ i = NoUser => obs'.user = NoUser
        /\ i # NoUser =>
             obs'.user = (IF db[i].hashed_password.pw = obs'.password
                          THEN i ELSE NoUser)]_vars

C11_Witness ==
    /\ obs.op = "authenticate" /\ obs.user = 2
    /\ obs.email = "a@x.com" /\ obs.password = "pw2"
    /\ db[1].email = DEFAULT_USER_EMAIL

\* C12: every authenticate call makes exactly one verify_password call,
\* after the lookup and before it reports: for an unknown email (against
\* DUMMY_HASH) as for a known email with a wrong or a right password.
VerifyCalls(trace) ==
    Cardinality({i \in DOMAIN trace : trace[i] = "verify_password"})

C12_OneVerificationOnEveryPath ==
    obs.op = "authenticate" =>
        /\ VerifyCalls(obs.trace) = 1
        /\ obs.trace[1] = "get_user_by_email"
        /\ obs.trace[2] = "verify_password"

C12_Witness ==
    /\ obs.op = "authenticate" /\ obs.user = NoUser
    /\ get_user_by_email(db, obs.email) = NoUser
    /\ Len(db) = 2

\* C13: when authenticate succeeds against a hash that is not of the
\* primary algorithm, the step commits the argon2 hash of the same password
\* to that row and to no other; the stored hash then verifies the password
\* with nothing more to upgrade, and authenticate run again on the new
\* table returns the user and writes nothing.  Against an argon2 hash a
\* successful authenticate writes nothing.
C13_UpgradedHashIsCommitted ==
    [][(obs'.op = "authenticate" /\ obs'.user # NoUser) =>
        LET u == obs'.user IN
        IF db[u].hashed_password.alg = "argon2"
        THEN db' = db /\ obs'.trace = <<"get_user_by_email", "verify_password">>
        ELSE /\ obs'.trace = <<"get_user_by_email", "verify_password", "commit">>
             /\ db' = [db EXCEPT ![u].hashed_password =
                                    get_password_hash(obs'.password)]
             /\ verify_password(obs'.password, db'[u].hashed_password)
                    = [verified |-> TRUE, updated |-> NoHash]
             /\ authenticate(db', obs'.email, obs'.password)
                    = [table |-> db', user |-> u,
                       check |-> [verified |-> TRUE, updated |-> NoHash],
                       trace |-> <<"get_user_by_email", "verify_password">>]]_vars

C13_Witness ==
    /\ obs.op = "authenticate" /\ obs.user # NoUser
    /\ obs.trace = <<"get_user_by_email", "verify_password", "commit">>
    /\ db[obs.user].hashed_password = get_password_hash(obs.password)
    /\ Len(db) = 2

\* C14: whatever create_user, update_user, get_or_create_default_user (at
\* a process start and in racing requests) and authenticate have done, no
\* two rows of the user table have the same email.
C14_EmailIsUnique ==
    \A i, j \in DOMAIN db : db[i].email = db[j].email => i = j

C14_Witness ==
    /\ Len(db) = 2
    /\ obs.op = "get_current_user" /\ obs.detail = "IntegrityError"

\* C17: every stored hashed_password is the output of one of the hashers
\* and never the password itself; and once update_user has set password
\* p on a user, authenticate with that user's email returns the user for
\* p and None for every other password, the previous one included.
IsHash(h) == \E n \in DOMAIN Hashers : h.alg = Hashers[n]

C17_StoredHashAndPasswordChange ==
    [][/\ \A i \in DOMAIN db : IsHash(db[i].hashed_password)
       /\ \A i \in DOMAIN db' : IsHash(db'[i].hashed_password)
       /\ (/\ obs.op = "update_user" /\ obs.status = 200
           /\ obs.password # "-"
           /\ obs'.op = "authenticate"
           /\ obs'.email = db[obs.user].email) =>
            obs'.user = (IF obs'.password = obs.password
                         THEN obs.user ELSE NoUser)]_vars

C17_Witness ==
    /\ obs.op = "authenticate" /\ obs.user # NoUser
    /\ obs.password = "pw2"
    /\ db[obs.user].is_superuser
    /\ db[obs.user].hashed_password = get_password_hash("pw2")

\* C18: get_current_active_superuser, run on the user get_current_user
\* returned, fails with 403 "The user doesn't have enough privileges"
\* exactly when that user's is_superuser is false and otherwise returns
\* the same user; it reads nothing get_current_user did not read and
\* writes nothing; a failure of get_current_user is passed on as it is.
C18_SuperuserGuard ==
    [][(obs'.op = "get_current_active_superuser" /\ obs'.status # 0) =>
        LET cu == get_current_user(authRequired, obs'.token, secret, now, db) IN
        /\ UNCHANGED <<boot, authRequired, secret, db, now, issued, pc, req,
                       sess, conns>>
        /\ obs'.trace = cu.trace
        /\ IF cu.status # 200
           THEN obs' = [cu EXCEPT !.op = "get_current_active_superuser"]
           ELSE IF ~db[cu.user].is_superuser
           THEN /\ obs'.status = 403
                /\ obs'.detail = "The user doesn't have enough privileges"
                /\ obs'.user = NoUser
           ELSE /\ obs'.status = 200
                /\ obs'.user = cu.user]_vars

C18_Witness ==
    /\ obs.op = "get_current_active_superuser"
    /\ obs.status = 403
    /\ obs.detail = "The user doesn't have enough privileges"
    /\ authRequired
    /\ db[obs.token.sub].is_active /\ ~db[obs.token.sub].is_superuser
    /\ \E i \in DOMAIN db : db[i].is_superuser

\* C19: whether get_current_user accepts a token as valid (anything but
\* the 403 of a validation failure) is a function of the token, SECRET_KEY
\* and the clock, and of nothing else: every request is answered by that
\* function, and no step of any operation (a token issued, another token
\* validated, a login, a hash upgrade, a password changed, a user
\* deactivated, time passing short of the token's exp) changes the answer
\* for a token while SECRET_KEY stays; nothing revokes a token.
Rejected(token, key, t, table) ==
    resolve_token(token, key, t, table).status = 403

KnownTokens == HeldTokens \cup {i.tok : i \in issued}

C19_TokenValidationIsStateless ==
    [][/\ (obs'.op = "get_current_user" /\ obs'.token.form = "jwt") =>
            (obs'.status = 403 <=> ~Validates(obs'.token))
       /\ \A tok \in KnownTokens :
            (secret' = secret /\ tok.exp * TicksPerSec > now') =>
                (Rejected(tok, secret', now', db')
                    <=> Rejected(tok, secret, now, db))]_vars

C19_Witness ==
    /\ Resolved /\ obs.token \in HeldTokens /\ obs.status = 200
    /\ now > 0
    /\ db[obs.token.sub].hashed_password = get_password_hash("pw2")
    /\ \E i \in issued : i.tok # obs.token /\ i.tok.sub = obs.token.sub

\* C15: the session get_db opened for a request is closed when the
\* request has ended, however it ended (return, HTTPException from
\* get_current_user, another exception, cancellation): no request that is
\* over has a session, every connection is either idle in the pool or held
\* by exactly one open session, the write lock is held by open sessions
\* only, and leaving the with block changes no row, so what an aborted
\* request had not committed is not in the table.
Exits == {"returned", "HTTPException", "Exception", "aborted"}

Holders(c) == {q \in Reqs : sess[q].state = "open" /\ sess[q].conn = c}

C15_SessionReleasedOnEveryExit ==
    [][/\ \A r \in Reqs :
            /\ pc'[r] = "idle" => sess'[r] = NoSession
            /\ sess'[r].tx = "write" => sess'[r].state = "open"
            /\ (pc[r] \in Exits /\ pc'[r] = "idle") => db' = db
            /\ (pc[r] # "aborted" /\ pc'[r] = "aborted") => db' = db
       /\ \A c \in DOMAIN conns' :
            Cardinality(Holders(c)') = (IF conns'[c].idle THEN 0 ELSE 1)]_vars

C15_Witness ==
    /\ obs.op = "get_db_exit" /\ obs.detail = "aborted"
    /\ obs.trace = <<"rollback", "close">>
    /\ \E q \in Reqs : pc[q] = "waiting"
    /\ \A q \in Reqs : sess[q].tx = "none"
    /\ \E c \in DOMAIN conns : conns[c].idle

\* C16: of two sessions that write at the same time one holds the write
\* lock; the other's busy handler sleeps, for no longer than busy_timeout
\* (5000 ms) in all and longer with every round, and then the INSERT goes
\* on once no other session holds the lock, or fails with "database is
\* locked" (Busy) when the lock was still held at the timeout; a step adds
\* to the table the whole row of one committing session or nothing.
Writers == {q \in Reqs : sess[q].tx = "write"}

C16_SecondWriterWaitsAtMostBusyTimeout ==
    [][/\ Cardinality(Writers') <= 1
       /\ \/ db' = db
          \/ \E q \in Reqs :
                /\ pc[q] = "flushed" /\ pc'[q] = "returned"
                /\ Writers = {q} /\ Writers' = {}
                /\ \E row \in sess[q].pending : db' = Append(db, row)
       /\ obs'.op = "busy_handler" =>
            \E r \in Reqs : /\ pc[r] = "waiting"
                            /\ sess'[r].waited = sess[r].waited + BusyStep
       /\ \A r \in Reqs :
            /\ sess'[r].waited <= busy_timeout
            /\ (pc[r] = "waiting" /\ pc'[r] = "waiting") =>
                    sess'[r].waited >= sess[r].waited
            /\ (pc[r] = "waiting" /\ pc'[r] = "flushed") =>
                    ~WriteLocked(r) /\ Writers' = {r}
            /\ (pc[r] = "waiting" /\ pc'[r] = "Exception"
                    /\ obs'.detail # "IntegrityError") =>
                    /\ obs'.detail = "OperationalError: database is locked"
                    /\ WriteLocked(r)
                    /\ sess[r].waited + BusyStep > busy_timeout
                    /\ sess'[r].tx = "none"]_vars

C16_Witness ==
    /\ obs.op = "create_user" /\ obs.status = 200
    /\ \E r \in Reqs : pc[r] = "returned" /\ sess[r].waited = busy_timeout
    /\ Len(db) = 2
    /\ \E q \in Reqs : pc[q] = "idle"

\* C20: every connection of the pool, the first and each one opened later,
\* has had set_sqlite_pragma run on it exactly once, when it was opened,
\* and so has journal_mode=WAL, foreign_keys=ON, busy_timeout=5000 and
\* synchronous=NORMAL before its first statement and at every one after,
\* also when it is handed out again.
C20_PragmasOncePerConnection ==
    \A c \in DOMAIN conns :
        /\ conns[c].hooks = 1
        /\ conns[c].journal_mode = "WAL"
        /\ conns[c].foreign_keys = "ON"
        /\ conns[c].busy_timeout = busy_timeout
        /\ conns[c].synchronous = "NORMAL"

C20_Witness ==
    /\ Len(conns) = 2
    /\ \A c \in DOMAIN conns : conns[c].used
    /\ obs.op = "flush"
    /\ \E r \in Reqs : pc[r] = "flushed" /\ sess[r].conn = 1
    /\ \E q \in Reqs : pc[q] = "idle"
    /\ conns[2].idle

\* C21: password hashing and verification never run while the calling
\* session holds the database write lock.  In create_user, update_user,
\* authenticate (its hash-upgrade path included) and the default-user
\* branch of get_current_user, every get_password_hash or verify_password
\* call of the operation comes before its first write statement, and none
\* comes between a write and its commit.
HashCalls == {"get_password_hash", "verify_password"}

WriteCalls == {"INSERT", "UPDATE", "commit"}

C21_HashingOutsideWriteLock ==
    obs.op \in {"create_user", "update_user", "authenticate",
                "get_current_user"} =>
        \A i, j \in DOMAIN obs.trace :
            (obs.trace[i] \in WriteCalls /\ obs.trace[j] \in HashCalls)
                => j < i

\* A password change through update_user has hashed and then committed.
C21_Witness ==
    /\ obs.op = "update_user" /\ obs.status = 200
    /\ obs.password = "pw1"
    /\ obs.trace = <<"get_password_hash", "commit">>
    /\ db[obs.user].hashed_password = get_password_hash("pw1")

\* C23: with AUTH_REQUIRED=false every identity that get_current_user
\* returns is active and a superuser, so that a route that depends on
\* get_current_active_superuser always lets the request through, whatever
\* create_user and update_user have done to the row with the default
\* email.  (A request that ends with the IntegrityError of C5 returns no
\* identity.)
C23_DefaultIdentityIsActiveSuperuser ==
    (/\ ~authRequired
     /\ obs.op \in {"get_current_user", "get_current_active_superuser"}
     /\ obs.status \notin {0, 500}) =>
        /\ obs.status = 200
        /\ obs.user \in DOMAIN db
        /\ db[obs.user].email = DEFAULT_USER_EMAIL
        /\ db[obs.user].is_active
        /\ db[obs.user].is_superuser

\* C22: at startup the storage directory exists before the database file
\* is first opened, run_migrations has returned before run_initial_data
\* starts, and no request is served before lifespan yields, which it does
\* only after both have returned.  Where alembic.ini is found,
\* run_migrations has brought the database to head by then; where it is
\* not found, run_migrations has only warned and migrated nothing.  When
\* creating the directory, command.upgrade or the initial data fails,
\* startup aborts: the process never reaches the serving state, and it
\* does not try again.
Failures == {"mkdir failed", "upgrade failed", "init_db failed"}

Steps(trace) == {trace[i] : i \in DOMAIN trace}

====
